---- MODULE Spec2Model ----
(***************************************************************************)
(* Model of tools/ci/pr_preview.py: the rate-limit guard around the        *)
(* Project methods, the synchronize pass over the pull requests returned   *)
(* by the forge's search, and the detect polling loop.                     *)
(*                                                                         *)
(* The forge (labels, deployments, deployment statuses) and the git        *)
(* remote (refs) are the state the script acts on; every request the       *)
(* script issues is appended to `calls`.                                   *)
(***************************************************************************)
EXTENDS Integers, Sequences, FiniteSets, TLC

VARIABLES
    pc,           \* position of the running command
    err,          \* the exception that ended the command, "none" while it runs
    closed,       \* forge: closed[n] is TRUE when pull request n has a closed_at
    assoc,        \* forge: author_association of pull request n
    labels,       \* forge: the set of label names of pull request n
    refs,         \* git remote: refs[<<prefix, n>>] is a revision or None
    deployments,  \* forge: the deployments created, in order
    statuses,     \* forge: the deployment statuses posted, in order
    calls,        \* every forge request and git remote call issued, in order
    items,        \* the numbers of the pull requests the search returns
    incomplete,   \* the incomplete_results flag of the search response
    pull_requests,\* synchronize: the items as returned by get_pull_requests
    idx,          \* synchronize: how many items the for loop has consumed
    pass,         \* number of synchronize passes started
    passStart,    \* Len(calls) when the current pass started
    passRefs,     \* the refs of the git remote when the current pass started
    bound,        \* the free names of the module that are bound in its globals
    timeout,      \* detect: the --timeout argument
    deployAt,     \* detect: the poll at which is_deployed first returns True,
                  \* 0 when it never does
    clock,        \* time.time(): the seconds slept so far
    start,        \* detect: the local `start`
    polls,        \* detect: evaluations of is_deployed
    sleeps,       \* detect: calls of time.sleep
    last          \* the last method called directly and the snapshot it read

vars == <<pc, err, closed, assoc, labels, refs, deployments, statuses, calls,
          items, incomplete, pull_requests, idx, pass, passStart, passRefs,
          bound,
          timeout, deployAt, clock, start, polls, sleeps, last>>

----------------------------------------------------------------------------
(* Program constants *)

\* API_RATE_LIMIT_THRESHOLD = 0.2, kept as the fraction 2/10
API_RATE_LIMIT_THRESHOLD_NUM == 2
API_RATE_LIMIT_THRESHOLD_DEN == 10
LABEL == "pull-request-has-preview"
POLLING_PERIOD == 5

----------------------------------------------------------------------------
(* Bounds of the model *)

NumPRs == 2        \* pull requests known to the forge
MaxItems == 1      \* length of the search result
MaxPasses == 2     \* synchronize runs in succession
MaxPolls == 4      \* latest poll at which the deployment check can succeed

PRs == 1..NumPRs
None == "None"
HeadRev == "r1"                       \* the revision of pull/<n>/head
Revs == {"r1", "r2"}
RefPrefixes == {"prs-labeled-for-preview", "prs-open"}
RefNames == RefPrefixes \X PRs
\* refs/pull/<number>/head, which the forge keeps for every pull request
PullHead(number) == <<"pull/head", number>>
RemoteRefs == RefNames \cup {PullHead(n) : n \in PRs}
\* the refs of the remote: the mirror refs rf and the pull request heads
WithPullHeads(rf) ==
    [r \in RemoteRefs |-> IF r \in RefNames THEN rf[r] ELSE HeadRev]
\* a revision as the bytes of the output of a subprocess
Bytes(rev) == CASE rev = "r1" -> "b'r1'" [] rev = "r2" -> "b'r2'"
IsBytes(v) == \E rev \in Revs : v = Bytes(rev)
Associations == {"COLLABORATOR", "CONTRIBUTOR"}
FreeNames == {"data", "target", "is_deployed"}
Timeouts == {0, 12, 30}

\* The answers of GET /rate_limit for the resource the guard reads: a
\* remaining/limit pair, or a non-success response.
HTTPError == [remaining |-> -1, limit |-> -1]
Snapshots == {[remaining |-> 10, limit |-> 100],
              [remaining |-> 19, limit |-> 100],
              [remaining |-> 20, limit |-> 100],
              [remaining |-> 30, limit |-> 100],
              [remaining |-> 0, limit |-> 0],
              [remaining |-> 7, limit |-> 0]}
RateLimitResponses == Snapshots \cup {HTTPError}

----------------------------------------------------------------------------
(* The record of one issued call: a forge request or a git remote call *)

Call(op, n, ref, arg) == [op |-> op, n |-> n, ref |-> ref, arg |-> arg]

ForgeMutations == {"add_label", "remove_label", "create_ref", "update_ref",
                   "create_deployment", "update_deployment"}
GitCalls == {"get_revision", "delete_ref"}
MutatingOps == ForgeMutations \cup {"delete_ref"}

\* The state the script acts on, threaded through the calls of one step.
World == [labels |-> labels, refs |-> refs, deployments |-> deployments,
          statuses |-> statuses, calls |-> calls, err |-> err]

Issue(w, c) == [w EXCEPT !.calls = Append(@, c)]
Raise(w, e) == IF w.err = "none" THEN [w EXCEPT !.err = e] ELSE w

----------------------------------------------------------------------------
(* guard *)

\* `limit and float(remaining) / limit < API_RATE_LIMIT_THRESHOLD`: for the
\* non-negative integers of a snapshot the float quotient is below 0.2 exactly
\* when remaining * 10 < 2 * limit.
GuardTrips(snap) ==
    /\ snap.limit # 0
    /\ snap.remaining * API_RATE_LIMIT_THRESHOLD_DEN
           < API_RATE_LIMIT_THRESHOLD_NUM * snap.limit

\* a guard that decides on a snapshot it holds, without fetching it
GuardWithoutFetch(w, resource, resp) ==
    IF w.err # "none" THEN w
    ELSE IF resp = HTTPError THEN Raise(w, "HTTPError")
    ELSE IF GuardTrips(resp) THEN Raise(w, "QuotaGuard")
    ELSE w

\* wrapped: fetch the rate limit, raise when the quota is low.  The wrapped
\* method runs when the result has err = "none".
Guard(w, resource, resp) ==
    IF w.err # "none" THEN w
    ELSE LET w1 == Issue(w, Call("rate_limit", 0, "", resource))
         IN IF resp = HTTPError THEN Raise(w1, "HTTPError")
            ELSE IF GuardTrips(resp) THEN Raise(w1, "QuotaGuard")
            ELSE w1

----------------------------------------------------------------------------
(* gh_request: the body is encoded as JSON (bytes are not serialisable and  *)
(* nothing is sent), the request is issued, then raise_for_status          *)

\* a request that is sent once more when the forge refuses it
gh_request_retrying(w, c, ok) ==
    IF w.err # "none" THEN w
    ELSE IF IsBytes(c.arg) THEN Raise(w, "InvalidJSONError")
    ELSE IF ok THEN Issue(w, c) ELSE Raise(Issue(Issue(w, c), c), "HTTPError")

gh_request(w, c, ok) ==
    IF w.err # "none" THEN w
    ELSE IF IsBytes(c.arg) THEN Raise(w, "InvalidJSONError")
    ELSE IF ok THEN Issue(w, c) ELSE Raise(Issue(w, c), "HTTPError")

----------------------------------------------------------------------------
(* Project *)

\* The search request of get_pull_requests and its incomplete_results test.
SearchIgnoringIncomplete(w, ok, inc) ==
    gh_request(w, Call("search", 0, "", ""), ok)

Search(w, ok, inc) ==
    LET w1 == gh_request(w, Call("search", 0, "", ""), ok)
    IN IF w1.err = "none" /\ inc THEN Raise(w1, "IncompleteResults") ELSE w1

get_pull_requests(w, resp, ok, inc) ==
    Search(Guard(w, "search", resp), ok, inc)

add_label(w, number, name, resp, ok) ==
    LET w1 == gh_request(Guard(w, "core", resp),
                         Call("add_label", number, "", name), ok)
    IN IF w1.err = "none"
       THEN [w1 EXCEPT !.labels[number] = @ \cup {name}]
       ELSE w1

\* The url of remove_label is formatted with four fields and five values
\* (host, project, number, number, name): the label segment is the number.
RemoveLabelUrlName(number, name) == ToString(number)

\* DELETE .../issues/<number>/labels/<label>: 404 when the issue does not
\* carry that label.
remove_label(w, number, name, resp, ok) ==
    LET lbl == RemoveLabelUrlName(number, name)
        w0 == Guard(w, "core", resp)
        w1 == gh_request(w0, Call("remove_label", number, "", lbl),
                         ok /\ lbl \in w0.labels[number])
    IN IF w1.err = "none"
       THEN [w1 EXCEPT !.labels[number] = @ \ {lbl}]
       ELSE w1

\* POST .../git/refs: 422 when the ref exists already.
create_ref(w, refspec, revision, resp, ok) ==
    LET w0 == Guard(w, "core", resp)
        w1 == gh_request(w0, Call("create_ref", refspec[2], refspec[1], revision),
                         ok /\ w0.refs[refspec] = None /\ revision # None)
    IN IF w1.err = "none"
       THEN [w1 EXCEPT !.refs[refspec] = revision]
       ELSE w1

\* PATCH .../git/refs/<refspec>: 422 when the ref does not exist.
update_ref(w, refspec, revision, resp, ok) ==
    LET w0 == Guard(w, "core", resp)
        w1 == gh_request(w0, Call("update_ref", refspec[2], refspec[1], revision),
                         ok /\ w0.refs[refspec] # None /\ revision # None)
    IN IF w1.err = "none"
       THEN [w1 EXCEPT !.refs[refspec] = revision]
       ELSE w1

create_deployment(w, number, ref, resp, ok) ==
    LET w1 == gh_request(Guard(w, "core", resp),
                         Call("create_deployment", number, "", ref), ok)
    IN IF w1.err = "none"
       THEN [w1 EXCEPT !.deployments =
                 Append(@, [environment |-> number, ref |-> ref])]
       ELSE w1

\* update_deployment reads the global `target` to build environment_url
\* before it issues the request: a NameError when the module has no such
\* global.
update_deployment(w, environment, state, resp, ok, names) ==
    LET w0 == Guard(w, "core", resp)
        w1 == IF w0.err = "none" /\ "target" \notin names
              THEN Raise(w0, "NameError")
              ELSE gh_request(w0, Call("update_deployment", environment, "", state), ok)
    IN IF w1.err = "none"
       THEN [w1 EXCEPT !.statuses = Append(@, state)]
       ELSE w1

----------------------------------------------------------------------------
(* Remote *)

\* git ls-remote <name> refs/<refspec>: None when the output is empty, else
\* its first field, which is text when check_output returns str (Python 2)
\* and bytes when it returns bytes (Python 3).
get_revision(w, refspec, text) ==
    LET rev == w.refs[refspec]
    IN IF rev = None THEN None
       ELSE IF text THEN rev
       ELSE Bytes(rev)

LsRemote(w, refspec) ==
    IF w.err # "none" THEN w
    ELSE Issue(w, Call("get_revision", refspec[2], refspec[1], ""))

\* git push <name> --delete refs/<refspec>, run in the empty repository of
\* _make_temp_repo.  `pushed` tells whether the push reaches the remote: a
\* url or an absolute path does, the name of a configured remote or a
\* relative path does not resolve there, git exits non-zero and check_call
\* raises with the ref left in place.  When the push goes through the ref
\* is gone afterwards; for a fully qualified ref the remote does not have
\* git warns and exits 0.
delete_ref(w, refspec, pushed) ==
    IF w.err # "none" THEN w
    ELSE LET w1 == Issue(w, Call("delete_ref", refspec[2], refspec[1], ""))
         IN IF pushed
            THEN [w1 EXCEPT !.refs[refspec] = None]
            ELSE Raise(w1, "CalledProcessError")

----------------------------------------------------------------------------
(* Pull requests as the search returns them *)

PullRequest(n) == [number |-> n, closed_at |-> closed[n],
                   author_association |-> assoc[n], labels |-> labels[n]]

is_open(pull_request) == ~pull_request.closed_at

has_label(pull_request) == \E label \in pull_request.labels : label = LABEL

\* the decision without the test of closed_at
should_be_mirrored_when_closed(pull_request) ==
    \/ pull_request.author_association = "COLLABORATOR"
    \/ has_label(pull_request)

should_be_mirrored(pull_request) ==
    /\ is_open(pull_request)
    /\ \/ pull_request.author_association = "COLLABORATOR"
       \/ has_label(pull_request)

----------------------------------------------------------------------------
(* The answers of the forge to the guarded calls of one loop iteration.    *)
(* A failed call raises and ends the pass, so the answers are: every call  *)
(* succeeds, or the at-th guarded call fails in one of three ways.         *)

FailureKinds == {"quota", "rate_limit_http", "request_http"}
Answers == {[at |-> 0, kind |-> "none"]}
               \cup [at : 1..4, kind : FailureKinds]

RespAt(f, j) ==
    IF f.at = j /\ f.kind = "quota" THEN [remaining |-> 10, limit |-> 100]
    ELSE IF f.at = j /\ f.kind = "rate_limit_http" THEN HTTPError
    ELSE [remaining |-> 30, limit |-> 100]

OkAt(f, j) == ~(f.at = j /\ f.kind = "request_http")

----------------------------------------------------------------------------
(* synchronize *)

\* Lines 267-302 of the loop body: the reconciliation of one pull request.
Reconcile(pull_request, w, f, text, pushed) ==
    LET number == pull_request.number
        refspec_labeled == <<"prs-labeled-for-preview", number>>
        refspec_open == <<"prs-open", number>>
        w0 == LsRemote(LsRemote(LsRemote(w, PullHead(number)),
                                refspec_labeled), refspec_open)
        revision_latest == get_revision(w, PullHead(number), text)
        revision_labeled == get_revision(w, refspec_labeled, text)
        revision_open == get_revision(w, refspec_open, text)
        \* should be mirrored
        m1 == IF ~has_label(pull_request)
              THEN add_label(w0, number, LABEL, RespAt(f, 1), OkAt(f, 1))
              ELSE w0
        m2 == IF revision_labeled = None
              THEN create_deployment(
                       create_ref(m1, refspec_labeled, revision_latest,
                                  RespAt(f, 2), OkAt(f, 2)),
                       number, revision_latest, RespAt(f, 3), OkAt(f, 3))
              ELSE IF revision_labeled # revision_latest
              THEN create_deployment(
                       update_ref(m1, refspec_labeled, revision_latest,
                                  RespAt(f, 2), OkAt(f, 2)),
                       number, revision_latest, RespAt(f, 3), OkAt(f, 3))
              ELSE m1
        m3 == IF revision_open = None
              THEN create_ref(m2, refspec_open, revision_latest,
                              RespAt(f, 4), OkAt(f, 4))
              ELSE IF revision_open # revision_latest
              THEN update_ref(m2, refspec_open, revision_latest,
                              RespAt(f, 4), OkAt(f, 4))
              ELSE m2
        \* should not be mirrored
        n1 == IF has_label(pull_request)
              THEN remove_label(w0, number, LABEL, RespAt(f, 1), OkAt(f, 1))
              ELSE w0
        n2 == IF revision_labeled # None
              THEN delete_ref(n1, refspec_labeled, pushed)
              ELSE n1
        n3 == IF revision_open # None /\ ~is_open(pull_request)
              THEN delete_ref(n2, refspec_labeled, pushed)
              ELSE n2
    IN IF should_be_mirrored(pull_request) THEN m3 ELSE n3

\* The body of `for pull_request in pull_requests` without the `continue`:
\* the outcomes of the reconciliation, one for each answer of the forge,
\* each type of the output of git and each kind of remote name.
LoopBodyReconciling(pull_request, w) ==
    {Reconcile(pull_request, w, f, text, pushed) :
        f \in Answers, text \in BOOLEAN, pushed \in BOOLEAN}

\* the reconciliation applied under the number of the next pull request
LoopBodyNeighbour(pull_request, w) ==
    LoopBodyReconciling(
        [pull_request EXCEPT !.number = (@ % NumPRs) + 1], w)

\* One iteration of `for pull_request in pull_requests`, as the set of its
\* outcomes: the log line, then `continue` (line 265); the rest of the body
\* is never reached.
LoopBody(pull_request, w) == {w}

Commit(w) ==
    /\ labels' = w.labels
    /\ refs' = w.refs
    /\ deployments' = w.deployments
    /\ statuses' = w.statuses
    /\ calls' = w.calls
    /\ err' = w.err

ForgeData == <<closed, assoc, items, incomplete>>
DetectVars == <<bound, timeout, deployAt, clock, start, polls, sleeps>>
SyncVars == <<pull_requests, idx, pass, passStart, passRefs>>

\* project.get_pull_requests(...) of synchronize
SyncGetPullRequests ==
    /\ pc = "sync_start"
    /\ \E resp \in RateLimitResponses, ok \in BOOLEAN :
         LET w == get_pull_requests(World, resp, ok, incomplete)
         IN /\ Commit(w)
            /\ pc' = IF w.err = "none" THEN "sync_loop" ELSE "sync_failed"
            /\ pull_requests' = IF w.err = "none"
                                THEN [i \in 1..Len(items) |-> PullRequest(items[i])]
                                ELSE pull_requests
    /\ idx' = 0
    /\ UNCHANGED <<ForgeData, DetectVars, pass, passStart, passRefs, last>>

\* the for loop takes the next pull request
SyncIterate ==
    /\ pc = "sync_loop"
    /\ idx < Len(pull_requests)
    /\ \E w \in LoopBody(pull_requests[idx + 1], World) :
         /\ Commit(w)
         /\ pc' = IF w.err = "none" THEN "sync_loop" ELSE "sync_failed"
    /\ idx' = idx + 1
    /\ UNCHANGED <<ForgeData, DetectVars, pull_requests, pass, passStart,
                   passRefs, last>>

\* the for loop is exhausted: synchronize returns
SyncReturn ==
    /\ pc = "sync_loop"
    /\ idx = Len(pull_requests)
    /\ pc' = "sync_done"
    /\ UNCHANGED <<err, labels, refs, deployments, statuses, calls, ForgeData,
                   DetectVars, SyncVars, last>>

\* the command is run again (the periodic job that invokes the script)
SyncAgain ==
    /\ pc \in {"sync_done", "sync_failed"}
    /\ pass < MaxPasses
    /\ pass' = pass + 1
    /\ passStart' = Len(calls)
    /\ passRefs' = refs
    /\ pc' = "sync_start"
    /\ err' = "none"
    /\ pull_requests' = <<>>
    /\ idx' = 0
    /\ UNCHANGED <<labels, refs, deployments, statuses, calls, ForgeData,
                   DetectVars, last>>

\* Search results: the pull requests updated in the window, without repeats.
ItemLists == {s \in UNION {[1..k -> PRs] : k \in 0..MaxItems} :
                 \A i, j \in DOMAIN s : i # j => s[i] # s[j]}

InSeq(s, x) == \E i \in DOMAIN s : s[i] = x

NoLast == [op |-> "none", resp |-> HTTPError]

\* The deployments earlier runs created: one for each labeled ref that
\* exists, for the revision the ref points at.
RECURSIVE EarlierDeployments(_, _)
EarlierDeployments(rf, n) ==
    IF n = 0 THEN <<>>
    ELSE LET rest == EarlierDeployments(rf, n - 1)
             rev == rf[<<"prs-labeled-for-preview", n>>]
         IN IF rev = None THEN rest
            ELSE Append(rest, [environment |-> n, ref |-> rev])

InitSync ==
    /\ pc = "sync_start"
    /\ err = "none"
    /\ items \in ItemLists
    /\ incomplete \in BOOLEAN
    \* pull requests outside the search window: open, by a contributor, and
    \* not labeled or mirrored
    /\ closed \in [PRs -> BOOLEAN]
    /\ \A n \in PRs : ~InSeq(items, n) => ~closed[n]
    /\ assoc \in [PRs -> Associations]
    /\ \A n \in PRs : ~InSeq(items, n) => assoc[n] = "CONTRIBUTOR"
    /\ labels \in [PRs -> SUBSET {LABEL}]
    /\ refs \in {WithPullHeads(rf) : rf \in [RefNames -> {None} \cup Revs]}
    /\ \A n \in PRs : ~InSeq(items, n) =>
          \/ labels[n] = {} /\ \A p \in RefPrefixes : refs[<<p, n>>] = None
          \/ labels[n] = {LABEL} /\ \A p \in RefPrefixes : refs[<<p, n>>] = HeadRev
    /\ deployments = EarlierDeployments(refs, NumPRs)
    /\ statuses = <<>>
    /\ calls = <<>>
    /\ pull_requests = <<>>
    /\ idx = 0
    /\ pass = 1
    /\ passStart = 0
    /\ passRefs = refs
    /\ bound = {}
    /\ timeout = 0
    /\ deployAt = 0
    /\ clock = 0
    /\ start = 0
    /\ polls = 0
    /\ sleeps = 0
    /\ last = NoLast

NextSync == SyncGetPullRequests \/ SyncIterate \/ SyncReturn \/ SyncAgain

SpecSync == InitSync /\ [][NextSync]_vars

----------------------------------------------------------------------------
(* detect *)

\* deployment['environment'] of the event payload
Environment == 1

\* is_deployed(target, deployment) at its k-th evaluation
is_deployed(k) == k = deployAt

\* `time.time() - start > timeout` (line 330), a strict comparison.  The
\* difference is the seconds slept since `start` was read plus the time the
\* statements in between took, which is a fraction of a second: positive
\* (`late`), or zero when both readings fall in one tick of the clock.
\* timeout is an integer (--timeout has type=int), so the fraction decides
\* only when the seconds slept equal the timeout.
TimeoutElapsed(late) ==
    \/ clock - start > timeout
    \/ late /\ clock - start = timeout

\* `raise Exception(message)` after the error status (line 333)
TimeoutNoRaise(w) == w

TimeoutRaise(w) == Raise(w, "DeploymentTimeout")

SyncData == <<closed, assoc, items, incomplete, pull_requests, idx, pass,
              passStart, passRefs>>
Forge == <<labels, refs, deployments, statuses, calls>>

\* lines 309-316: the event payload is read and logged; the log line reads
\* the global `data`
DetectLog ==
    /\ pc = "detect_start"
    /\ IF "data" \in bound
       THEN pc' = "detect_mark" /\ err' = err
       ELSE pc' = "detect_failed" /\ err' = "NameError"
    /\ UNCHANGED <<Forge, SyncData, DetectVars, last>>

\* lines 318-327: the in_progress status, then start = time.time()
DetectMarkInProgress ==
    /\ pc = "detect_mark"
    /\ \E resp \in RateLimitResponses, ok \in BOOLEAN :
         LET w == update_deployment(World, Environment, "in_progress",
                                    resp, ok, bound)
         IN /\ Commit(w)
            /\ pc' = IF w.err = "none" THEN "detect_poll" ELSE "detect_failed"
    /\ start' = clock
    /\ UNCHANGED <<SyncData, bound, timeout, deployAt, clock, polls, sleeps, last>>

\* line 329: the while condition
DetectPoll ==
    /\ pc = "detect_poll"
    /\ IF "is_deployed" \in bound
       THEN /\ polls' = polls + 1
            /\ pc' = IF is_deployed(polls + 1) THEN "detect_deployed"
                                               ELSE "detect_waiting"
            /\ err' = err
       ELSE /\ polls' = polls
            /\ pc' = "detect_failed"
            /\ err' = "NameError"
    /\ UNCHANGED <<Forge, SyncData, bound, timeout, deployAt, clock, start,
                   sleeps, last>>

\* lines 330 and 335: the timeout has not elapsed, sleep
DetectSleep ==
    /\ pc = "detect_waiting"
    /\ \E late \in BOOLEAN : ~TimeoutElapsed(late)
    /\ clock' = clock + POLLING_PERIOD
    /\ sleeps' = sleeps + 1
    /\ pc' = "detect_poll"
    /\ UNCHANGED <<err, Forge, SyncData, bound, timeout, deployAt, start,
                   polls, last>>

\* lines 330-335: the timeout has elapsed: the error status, then the raise
DetectTimeout ==
    /\ pc = "detect_waiting"
    /\ \E late \in BOOLEAN : TimeoutElapsed(late)
    /\ \E resp \in RateLimitResponses, ok \in BOOLEAN :
         LET w == TimeoutRaise(update_deployment(World, Environment, "error",
                                                 resp, ok, bound))
         IN /\ Commit(w)
            /\ IF w.err = "none"
               THEN /\ clock' = clock + POLLING_PERIOD
                    /\ sleeps' = sleeps + 1
                    /\ pc' = "detect_poll"
               ELSE /\ pc' = "detect_failed"
                    /\ UNCHANGED <<clock, sleeps>>
    /\ UNCHANGED <<SyncData, bound, timeout, deployAt, start, polls, last>>

\* line 337: the success status
DetectSuccess ==
    /\ pc = "detect_deployed"
    /\ \E resp \in RateLimitResponses, ok \in BOOLEAN :
         LET w == update_deployment(World, Environment, "success",
                                    resp, ok, bound)
         IN /\ Commit(w)
            /\ pc' = IF w.err = "none" THEN "detect_done" ELSE "detect_failed"
    /\ UNCHANGED <<SyncData, DetectVars, last>>

InitDetect ==
    /\ pc = "detect_start"
    /\ err = "none"
    /\ bound \in SUBSET FreeNames
    /\ timeout \in Timeouts
    /\ deployAt \in 0..MaxPolls
    /\ items = <<>>
    /\ incomplete = FALSE
    /\ closed = [n \in PRs |-> FALSE]
    /\ assoc = [n \in PRs |-> "COLLABORATOR"]
    /\ labels = [n \in PRs |-> {LABEL}]
    /\ refs = WithPullHeads([r \in RefNames |-> HeadRev])
    /\ deployments = <<[environment |-> Environment, ref |-> HeadRev]>>
    /\ statuses = <<>>
    /\ calls = <<>>
    /\ pull_requests = <<>>
    /\ idx = 0
    /\ pass = 1
    /\ passStart = 0
    /\ passRefs = refs
    /\ clock = 0
    /\ start = 0
    /\ polls = 0
    /\ sleeps = 0
    /\ last = NoLast

NextDetect ==
    \/ DetectLog
    \/ DetectMarkInProgress
    \/ DetectPoll
    \/ DetectSleep
    \/ DetectTimeout
    \/ DetectSuccess

SpecDetect == InitDetect /\ [][NextDetect]_vars

----------------------------------------------------------------------------
(* The methods of Project and Remote, each called once on a fresh object *)

Called(op, resp, w) ==
    /\ Commit(w)
    /\ pc' = "called"
    /\ last' = [op |-> op, resp |-> resp]
    /\ UNCHANGED <<SyncData, DetectVars>>

CallGetPullRequests ==
    /\ pc = "project"
    /\ \E resp \in RateLimitResponses, ok \in BOOLEAN :
            Called("search", resp, get_pull_requests(World, resp, ok, incomplete))

CallAddLabel ==
    /\ pc = "project"
    /\ \E n \in PRs, resp \in RateLimitResponses, ok \in BOOLEAN :
            Called("add_label", resp, add_label(World, n, LABEL, resp, ok))

CallRemoveLabel ==
    /\ pc = "project"
    /\ \E n \in PRs, resp \in RateLimitResponses, ok \in BOOLEAN :
            Called("remove_label", resp, remove_label(World, n, LABEL, resp, ok))

CallCreateRef ==
    /\ pc = "project"
    /\ \E r \in RefNames, v \in Revs, resp \in RateLimitResponses, ok \in BOOLEAN :
            Called("create_ref", resp, create_ref(World, r, v, resp, ok))

CallUpdateRef ==
    /\ pc = "project"
    /\ \E r \in RefNames, v \in Revs, resp \in RateLimitResponses, ok \in BOOLEAN :
            Called("update_ref", resp, update_ref(World, r, v, resp, ok))

CallCreateDeployment ==
    /\ pc = "project"
    /\ \E n \in PRs, v \in Revs, resp \in RateLimitResponses, ok \in BOOLEAN :
            Called("create_deployment", resp,
                   create_deployment(World, n, v, resp, ok))

CallUpdateDeployment ==
    /\ pc = "project"
    /\ \E n \in PRs, st \in {"in_progress", "success", "error"},
           resp \in RateLimitResponses, ok \in BOOLEAN :
            Called("update_deployment", resp,
                   update_deployment(World, n, st, resp, ok, bound))

\* Remote methods have no guard: no snapshot is read
CalledRemote(op, result, w) ==
    /\ Commit(w)
    /\ pc' = "called"
    /\ last' = [op |-> op, resp |-> HTTPError, result |-> result]
    /\ UNCHANGED <<SyncData, DetectVars>>

CallGetRevision ==
    /\ pc = "project"
    /\ \E r \in RemoteRefs, text \in BOOLEAN :
            CalledRemote("get_revision", get_revision(World, r, text),
                         LsRemote(World, r))

CallDeleteRef ==
    /\ pc = "project"
    /\ \E r \in RefNames, pushed \in BOOLEAN :
            CalledRemote("delete_ref", None, delete_ref(World, r, pushed))

InitProject ==
    /\ pc = "project"
    /\ err = "none"
    /\ bound \in {{}, FreeNames}
    /\ incomplete \in BOOLEAN
    /\ items = <<>>
    /\ closed = [n \in PRs |-> FALSE]
    /\ assoc = [n \in PRs |-> "CONTRIBUTOR"]
    /\ labels \in {[n \in PRs |-> {}], [n \in PRs |-> {LABEL}]}
    /\ refs \in {WithPullHeads([r \in RefNames |-> None]),
                 WithPullHeads([r \in RefNames |-> HeadRev])}
    /\ deployments = <<>>
    /\ statuses = <<>>
    /\ calls = <<>>
    /\ pull_requests = <<>>
    /\ idx = 0
    /\ pass = 1
    /\ passStart = 0
    /\ passRefs = refs
    /\ timeout = 0
    /\ deployAt = 0
    /\ clock = 0
    /\ start = 0
    /\ polls = 0
    /\ sleeps = 0
    /\ last = NoLast

NextProject ==
    \/ CallGetPullRequests
    \/ CallAddLabel
    \/ CallRemoveLabel
    \/ CallCreateRef
    \/ CallUpdateRef
    \/ CallCreateDeployment
    \/ CallUpdateDeployment
    \/ CallGetRevision
    \/ CallDeleteRef

SpecProject == InitProject /\ [][NextProject]_vars

----------------------------------------------------------------------------
(* The script: one of its two subcommands *)

Init == InitSync \/ InitDetect

Next == NextSync \/ NextDetect

Spec == Init /\ [][Next]_vars

----------------------------------------------------------------------------
(* Properties *)

PassCalls == {i \in DOMAIN calls : i > passStart}

Processed == {pull_requests[i] : i \in 1..idx}

CallsOf(op, n, prefix) ==
    {i \in PassCalls : /\ calls[i].op = op
                       /\ calls[i].n = n
                       /\ calls[i].ref = prefix}

Eligible(pr) ==
    /\ ~pr.closed_at
    /\ \/ pr.author_association = "COLLABORATOR"
       \/ LABEL \in pr.labels

\* C1: for each guarded Project method and each snapshot with limit > 0,
\* a ratio below 0.2 raises with only the rate-limit fetch issued, and a
\* ratio of 0.2 or more has the underlying request issued right after it.
C1_GuardDecidesRequest ==
    (pc = "called" /\ last.resp \in Snapshots /\ last.resp.limit > 0) =>
        IF 5 * last.resp.remaining < last.resp.limit
        THEN /\ err = "QuotaGuard"
             /\ Len(calls) = 1
             /\ calls[1].op = "rate_limit"
        ELSE /\ Len(calls) = 2
             /\ calls[1].op = "rate_limit"
             /\ calls[2].op = last.op

\* C2: after a pass that completes, every returned pull request that is
\* open and whose author is a collaborator or that carries the label has
\* the label, and its labeled ref points at its head revision.
C2_MirroredAfterPass ==
    pc = "sync_done" =>
        \A pr \in Processed :
            Eligible(pr) =>
                /\ LABEL \in labels[pr.number]
                /\ refs[<<"prs-labeled-for-preview", pr.number>>] = HeadRev

\* C3: a synchronize run that follows another one issues no mutating call
\* (no label, ref or deployment request and no ref deletion).
C3_SecondRunIdle ==
    pass >= 2 => \A i \in PassCalls : calls[i].op \notin MutatingOps

C3_Witness ==
    /\ pass = 2
    /\ pc = "sync_done"
    /\ idx >= 1
    /\ Len(calls) > passStart

\* C4: a returned pull request that should not be mirrored and that has the
\* label and the labeled ref gets exactly one remove_label call and exactly
\* one delete_ref call in a completed pass.
C4_OneRemovalOneDeletion ==
    pc = "sync_done" =>
        \A pr \in Processed :
            ( /\ ~Eligible(pr)
              /\ LABEL \in pr.labels
              /\ passRefs[<<"prs-labeled-for-preview", pr.number>>] # None ) =>
                /\ Cardinality(CallsOf("remove_label", pr.number, "")) = 1
                /\ Cardinality({i \in PassCalls :
                                   /\ calls[i].op = "delete_ref"
                                   /\ calls[i].n = pr.number}) = 1

\* C5: after a pass that completes, the open ref of every returned pull
\* request that is open points at its head revision.
C5_OpenRefTracksHead ==
    pc = "sync_done" =>
        \A pr \in Processed :
            ~pr.closed_at => refs[<<"prs-open", pr.number>>] = HeadRev

\* C6: after a pass that completes, the open ref of every returned pull
\* request that is closed and had one is absent.
C6_OpenRefDeletedWhenClosed ==
    pc = "sync_done" =>
        \A pr \in Processed :
            (pr.closed_at /\ passRefs[<<"prs-open", pr.number>>] # None) =>
                refs[<<"prs-open", pr.number>>] = None

\* C7: after a pass that completes, for every returned pull request: the
\* label set means the labeled ref exists and a deployment was created for
\* its revision; the label removed by the pass means the labeled ref is
\* absent.
C7_LabelAndRefAgree ==
    pc = "sync_done" =>
        \A pr \in Processed :
            LET ref == refs[<<"prs-labeled-for-preview", pr.number>>]
            IN /\ LABEL \in labels[pr.number] =>
                     /\ ref # None
                     /\ \E d \in DOMAIN deployments :
                            /\ deployments[d].environment = pr.number
                            /\ deployments[d].ref = ref
               /\ (LABEL \in pr.labels /\ LABEL \notin labels[pr.number]) =>
                     ref = None

\* The search of the current pass was answered with a success status.
SearchAnswered ==
    /\ Len(calls) >= passStart + 2
    /\ calls[passStart + 2].op = "search"
    /\ err # "HTTPError"

\* C8: a search response flagged incomplete ends the pass with the fatal
\* error of get_pull_requests, with no mutating call and no git remote call
\* made in the pass.
C8_IncompleteAborts ==
    (incomplete /\ SearchAnswered) =>
        /\ pc = "sync_failed"
        /\ err = "IncompleteResults"
        /\ \A i \in PassCalls : calls[i].op \notin MutatingOps \cup GitCalls

C8_Witness ==
    /\ incomplete
    /\ SearchAnswered
    /\ Len(items) >= 1
    /\ pc = "sync_failed"

DetectEnded == pc \in {"detect_done", "detect_failed"}
ForgeRefused == err \in {"QuotaGuard", "HTTPError"}
LastStatus == IF statuses = <<>> THEN "none" ELSE statuses[Len(statuses)]

\* C9: with the forge accepting every request, a check that first succeeds
\* at the 4th poll under a timeout of 30 ends detect with 3 sleeps and the
\* success status; a check that never succeeds under a timeout of 12 ends
\* it with the error status after at most 3 polls.
C9_PollingScenarios ==
    (DetectEnded /\ ~ForgeRefused) =>
        /\ (deployAt = 4 /\ timeout = 30) =>
              /\ pc = "detect_done"
              /\ sleeps = 3
              /\ LastStatus = "success"
        /\ (deployAt = 0 /\ timeout = 12) =>
              /\ err = "DeploymentTimeout"
              /\ LastStatus = "error"
              /\ polls <= 3

\* C10: the statuses detect posts are in_progress followed by at most one
\* of success and error, and in_progress is posted before the first poll.
C10_StatusesMonotonic ==
    /\ statuses \in {<<>>, <<"in_progress">>, <<"in_progress", "success">>,
                     <<"in_progress", "error">>}
    /\ polls > 0 => (statuses # <<>> /\ statuses[1] = "in_progress")

C10_Witness ==
    /\ pc = "detect_failed"
    /\ polls > 1
    /\ statuses = <<"in_progress", "error">>


----------------------------------------------------------------------------
(* Every way the script reaches the forge: the two subcommands and the     *)
(* Project methods called directly                                         *)

InitCalls == Init \/ InitProject

NextCalls == Next \/ NextProject

SpecCalls == InitCalls /\ [][NextCalls]_vars

GuardedOps == {"search"} \cup ForgeMutations

ResourceOf(op) == IF op = "search" THEN "search" ELSE "core"

\* C12: every guarded request in the log comes right after a rate-limit
\* fetch of its own, read for the resource of the request.
C12_FetchBeforeEachRequest ==
    \A i \in DOMAIN calls :
        calls[i].op \in GuardedOps =>
            /\ i > 1
            /\ calls[i - 1] = Call("rate_limit", 0, "", ResourceOf(calls[i].op))

C12_Witness ==
    /\ Len(calls) = 4
    /\ calls[2].op = "update_deployment"
    /\ calls[4].op = "update_deployment"
    /\ calls[3].op = "rate_limit"


\* The requests and git calls the step issues: the new entries of calls'.
NewCalls == {i \in DOMAIN calls' : i > Len(calls)}

\* C13: the step in which a guarded call of a pass fails issues nothing
\* after the failed call and sends no request twice; once the pass has
\* failed no request is issued, no pull request is processed and no label,
\* ref or deployment changes until the command is run again.
C13_FailureEndsPass ==
    [][ /\ (pc # "sync_failed" /\ pc' = "sync_failed") =>
              /\ err' \in {"QuotaGuard", "HTTPError", "IncompleteResults"}
              /\ \A i, j \in NewCalls : calls'[i] = calls'[j] => i = j
              /\ err' = "QuotaGuard" =>
                     calls'[Len(calls')].op = "rate_limit"
              /\ idx' <= idx + 1
        /\ pc = "sync_failed" =>
              /\ pass' = pass + 1
              /\ calls' = calls
              /\ labels' = labels
              /\ refs' = refs
              /\ deployments' = deployments
      ]_vars

C13_Witness ==
    /\ pc = "sync_failed"
    /\ err = "HTTPError"
    /\ Len(items) >= 1
    /\ Len(calls) = passStart + 2
    /\ pass = 2


\* The requests of the current pass with operation op for ref <<prefix, n>>.
Count(op, n, prefix) == Cardinality(CallsOf(op, n, prefix))

\* C14: in a completed pass, a returned pull request that should be mirrored
\* gets one create_ref and one create_deployment when its labeled ref was
\* absent, one update_ref and one create_deployment when the ref differed
\* from the head revision, and none of them when the ref equalled it.
C14_DeploymentFollowsLabeledRef ==
    pc = "sync_done" =>
        \A pr \in Processed :
            Eligible(pr) =>
                LET n == pr.number
                    was == passRefs[<<"prs-labeled-for-preview", n>>]
                    created == Count("create_ref", n, "prs-labeled-for-preview")
                    updated == Count("update_ref", n, "prs-labeled-for-preview")
                    deployed == Count("create_deployment", n, "")
                IN /\ was = None =>
                        (created = 1 /\ updated = 0 /\ deployed = 1)
                   /\ (was # None /\ was # HeadRev) =>
                        (created = 0 /\ updated = 1 /\ deployed = 1)
                   /\ was = HeadRev =>
                        (created = 0 /\ updated = 0 /\ deployed = 0)


----------------------------------------------------------------------------
(* should_be_mirrored applied to a pull request of the search response *)

AuthorAssociations == {"COLLABORATOR", "CONTRIBUTOR", "MEMBER", "OWNER", "NONE"}
LabelNames == {LABEL, "other-label"}

CallShouldBeMirrored ==
    /\ pc = "mirror"
    /\ \E n \in PRs :
         last' = [op |-> "should_be_mirrored", resp |-> HTTPError, n |-> n,
                  result |-> should_be_mirrored(PullRequest(n))]
    /\ pc' = "mirrored"
    /\ UNCHANGED <<err, Forge, SyncData, DetectVars>>

InitMirror ==
    /\ pc = "mirror"
    /\ err = "none"
    /\ closed \in [PRs -> BOOLEAN]
    /\ assoc \in [PRs -> AuthorAssociations]
    /\ labels \in [PRs -> SUBSET LabelNames]
    /\ refs = WithPullHeads([r \in RefNames |-> None])
    /\ items = <<>>
    /\ incomplete = FALSE
    /\ deployments = <<>>
    /\ statuses = <<>>
    /\ calls = <<>>
    /\ pull_requests = <<>>
    /\ idx = 0
    /\ pass = 1
    /\ passStart = 0
    /\ passRefs = refs
    /\ bound = {}
    /\ timeout = 0
    /\ deployAt = 0
    /\ clock = 0
    /\ start = 0
    /\ polls = 0
    /\ sleeps = 0
    /\ last = NoLast

NextMirror == CallShouldBeMirrored

SpecMirror == InitMirror /\ [][NextMirror]_vars

\* C15: should_be_mirrored is true exactly for an open pull request whose
\* author is a COLLABORATOR or that carries the preview label; it is false
\* for every closed pull request.
C15_MirroredIffOpenAndTrusted ==
    pc = "mirrored" =>
        /\ last.result <=>
              /\ ~closed[last.n]
              /\ \/ assoc[last.n] = "COLLABORATOR"
                 \/ LABEL \in labels[last.n]
        /\ closed[last.n] => ~last.result

C15_Witness ==
    /\ pc = "mirrored"
    /\ closed[last.n]
    /\ assoc[last.n] = "COLLABORATOR"
    /\ LABEL \in labels[last.n]
    /\ ~last.result


----------------------------------------------------------------------------
(* detect as a process that keeps running: a single thread that takes its  *)
(* next step whenever it has one                                           *)

SpecDetectFair == SpecDetect /\ WF_vars(NextDetect)

PollBound == (timeout \div 5) + 2

\* C16: detect ends after at most floor(timeout / 5) + 2 polls, with the
\* success status, or with the error status and a failure.
C16_EndsWithSuccessOrError ==
    DetectEnded =>
        /\ polls <= PollBound
        /\ \/ pc = "detect_done" /\ LastStatus = "success"
           \/ pc = "detect_failed" /\ LastStatus = "error"


\* C17: no step of synchronize changes a label, a ref or a deployment, and
\* the only calls a step issues are the rate-limit fetch and the search.
C17_LoopMutatesNothing ==
    [][ /\ labels' = labels
        /\ refs' = refs
        /\ deployments' = deployments
        /\ statuses' = statuses
        /\ \A i \in NewCalls : calls'[i].op \in {"rate_limit", "search"}
      ]_vars

\* a completed first pass over a pull request that should be mirrored and
\* has neither the label nor a ref
C17_Witness ==
    /\ pc = "sync_done"
    /\ pass = 1
    /\ \E pr \in Processed :
          /\ Eligible(pr)
          /\ LABEL \notin labels[pr.number]
          /\ \A p \in RefPrefixes : refs[<<p, pr.number>>] = None
    /\ Len(calls) = 2


\* C18: the iteration for pull request n leaves the labels and refs of every
\* other pull request as they were, issues only calls that name n (after
\* their rate-limit fetches) and creates deployments only for n; no other
\* step of synchronize changes a label, a ref or a deployment.
C18_OnlyOwnState ==
    [][ /\ idx' = idx + 1 =>
              LET n == pull_requests[idx + 1].number
              IN /\ \A m \in PRs \ {n} :
                       /\ labels'[m] = labels[m]
                       /\ \A p \in RefPrefixes :
                              refs'[<<p, m>>] = refs[<<p, m>>]
                 /\ \A i \in NewCalls :
                       calls'[i].op = "rate_limit" \/ calls'[i].n = n
                 /\ \A d \in DOMAIN deployments' :
                       d > Len(deployments) => deployments'[d].environment = n
        /\ idx' # idx + 1 =>
              /\ labels' = labels
              /\ refs' = refs
              /\ deployments' = deployments
      ]_vars

\* the iteration for pull request 1 is over, with pull request 2 mirrored
\* and outside the search result
C18_Witness ==
    /\ pc = "sync_loop"
    /\ idx = 1
    /\ pull_requests[1].number = 1
    /\ ~InSeq(items, 2)
    /\ LABEL \in labels[2]
    /\ refs[<<"prs-open", 2>>] = HeadRev


\* C19: when the snapshot has limit = 0 the guard raises nothing, whatever
\* remaining is, and the request of the called method is issued right after
\* the rate-limit fetch.
C19_ZeroLimitPasses ==
    (pc = "called" /\ last.resp \in Snapshots /\ last.resp.limit = 0) =>
        /\ err # "QuotaGuard"
        /\ Len(calls) = 2
        /\ calls[1].op = "rate_limit"
        /\ calls[2].op = last.op

====
